---- MODULE Spec2Model ----
(***************************************************************************)
(* Model of the coding-competition workflow: the CompetitionState record,  *)
(* the four agents' _post_process_result methods, BaseAgent.__call__ (the  *)
(* turn executor), CodingCompetitionGraph._route_next (the router) and     *)
(* run_competition (the controller loop over the LangGraph state graph).   *)
(***************************************************************************)
EXTENDS Integers, Sequences, FiniteSets, TLC

\* ---------------------------------------------------------------- bounds
\* CodingCompetitionConfig.max_rounds ranges over 1..MaxRoundsCfg.
MaxRoundsCfg == 2
\* Agent calls made on one controller over all of its runs (SpecController).
MaxCalls == 6
\* Tool calls one model response may request (SpecTools).
MaxToolCalls == 2

\* ------------------------------------------------------------- constants
\* Python's None, where the field otherwise holds a string or a number.
NoneVal == "None"
\* Python's None, where the field otherwise holds an object (a record).
NoneObj == [type |-> "None"]

\* Node names of the state graph (competition_graph.py, add_node).
Agents == {"moderator", "coderA", "coderB", "reviewer"}

\* role.value of each agent instance: both coders are built with
\* AgentRole.CODER, the moderator with AgentRole.ROUND_CONTROLLER.
AgentRole == [moderator |-> "roundcontroller", coderA |-> "coder",
              coderB |-> "coder", reviewer |-> "reviewer"]

\* A model call that raises (timeout, API error) instead of returning.
LLMError == [type |-> "LLMError"]

\* --------------------------------------------------- model-call outputs
\* Identifiers the moderator's model may give a problem.
ProblemIds == {"p1", "p2"}

\* What the moderator's chain can be handed by the model: a well-formed
\* problem, one whose id is empty (min_length=1 fails), or an exception.
ModeratorOutputs ==
    {[type |-> "CodingProblem", id |-> i, title |-> "t"] :
        i \in ProblemIds \cup {""}} \cup {LLMError}

\* A CodeSubmission (only the attribute the agents read is kept).
Submission == [type |-> "CodeSubmission", entrypoint |-> "solve"]

\* What a coder's chain can return: the structured-output chain hands the
\* model's result to _post_process_result without parsing (_validate_result
\* is the identity), so the result is a CodeSubmission, None, or the call
\* raises.
CoderOutputs == {Submission, NoneObj, LLMError}

\* <<correctness, efficiency, quality>> a review may give one coder, all
\* inside the declared ranges; the round totals are 10, 3, 4 and 0.
ScoreTriples == {<<5, 3, 2>>, <<2, 1, 0>>, <<2, 1, 1>>, <<0, 0, 0>>}
WinnerVals == {"coderA", "coderB", "draw"}

MkReview(ca, ea, qa, cb, eb, qb, w) ==
    [type |-> "CodeReview",
     coderA_correctness_score |-> ca, coderA_efficiency_score |-> ea,
     coderA_quality_score |-> qa,
     coderB_correctness_score |-> cb, coderB_efficiency_score |-> eb,
     coderB_quality_score |-> qb, round_winner |-> w]

\* Reviews whose fields are all inside the declared ranges.
InRangeReviews ==
    {MkReview(a[1], a[2], a[3], b[1], b[2], b[3], w) :
        a \in ScoreTriples, b \in ScoreTriples, w \in WinnerVals}

\* The review giving both coders every maximum, and the one giving zeros.
MaxReview == MkReview(5, 3, 2, 5, 3, 2, "draw")
ZeroReview == MkReview(0, 0, 0, 0, 0, 0, "draw")

\* Reviews with exactly one field outside its declared range: one above its
\* maximum in MaxReview, one below zero in ZeroReview, or an unknown winner.
OutOfRangeReviews ==
    {[MaxReview EXCEPT !.coderA_correctness_score = 6],
     [MaxReview EXCEPT !.coderA_efficiency_score = 4],
     [MaxReview EXCEPT !.coderA_quality_score = 3],
     [MaxReview EXCEPT !.coderB_correctness_score = 6],
     [MaxReview EXCEPT !.coderB_efficiency_score = 4],
     [MaxReview EXCEPT !.coderB_quality_score = 3],
     [ZeroReview EXCEPT !.coderA_correctness_score = -1],
     [ZeroReview EXCEPT !.coderA_efficiency_score = -1],
     [ZeroReview EXCEPT !.coderA_quality_score = -1],
     [ZeroReview EXCEPT !.coderB_correctness_score = -1],
     [ZeroReview EXCEPT !.coderB_efficiency_score = -1],
     [ZeroReview EXCEPT !.coderB_quality_score = -1],
     [MaxReview EXCEPT !.round_winner = "tie"]}

\* What the reviewer's chain can be handed by the model.
ReviewerOutputs == InRangeReviews \cup OutOfRangeReviews \cup {LLMError}

ModelOutputs(agent) ==
    CASE agent = "moderator" -> ModeratorOutputs
      [] agent = "coderA" -> CoderOutputs
      [] agent = "coderB" -> CoderOutputs
      [] agent = "reviewer" -> ReviewerOutputs

\* ------------------------------------------------------------ variables
VARIABLES
    config,      \* CodingCompetitionConfig.max_rounds of the controller
    state,       \* the CompetitionState record threaded through the graph
    metrics,     \* BaseAgent.metrics of each of the four agent instances
    pc,          \* "idle" | "node" (about to run `node`) | "route" | "end"
    node,        \* the graph node scheduled to run next
    run,         \* number of run_competition calls started so far
    fromDefault, \* the current run started from _initialize_state()
    nturns,      \* agent turns executed in the current run
    lastTurn,    \* [agent, ok, out]: the most recent turn of the current run,
                 \* whether it succeeded, and the model output it was given
    failed,      \* some turn of the current run raised
    reviews,     \* successful Reviewer turns in the current run
    chain        \* progress of the running turn's chain (SpecTools): stage,
                 \* the model's latest response, the tool calls it asked
                 \* for, the tool messages produced, model invocations

vars == <<config, state, metrics, pc, node, run, fromDefault, nturns,
          lastTurn, failed, reviews, chain>>

\* ------------------------------------------------------------ operators
\* The round counter started at 0.
_initialize_state_RoundZero(max_rounds) ==
    [problems |-> <<>>,
     current_problem |-> NoneObj,
     current_round |-> 0,
     max_rounds |-> max_rounds,
     coderA_submissions |-> <<>>,
     coderB_submissions |-> <<>>,
     coderA_Score |-> 0,
     coderB_Score |-> 0,
     reviewer_comments |-> <<>>,
     round_winner |-> NoneVal,
     overall_winner |-> NoneVal,
     error_log |-> <<>>,
     next_agent |-> "moderator",
     competition_status |-> "preparing"]

\* max_rounds taken from the class default instead of the configuration.
_initialize_state_FixedRounds(max_rounds) ==
    [problems |-> <<>>,
     current_problem |-> NoneObj,
     current_round |-> 1,
     max_rounds |-> 3,
     coderA_submissions |-> <<>>,
     coderB_submissions |-> <<>>,
     coderA_Score |-> 0,
     coderB_Score |-> 0,
     reviewer_comments |-> <<>>,
     round_winner |-> NoneVal,
     overall_winner |-> NoneVal,
     error_log |-> <<>>,
     next_agent |-> "moderator",
     competition_status |-> "preparing"]

\* CodingCompetitionGraph._initialize_state
_initialize_state(max_rounds) ==
    [problems |-> <<>>,
     current_problem |-> NoneObj,
     current_round |-> 1,
     max_rounds |-> max_rounds,
     coderA_submissions |-> <<>>,
     coderB_submissions |-> <<>>,
     coderA_Score |-> 0,
     coderB_Score |-> 0,
     reviewer_comments |-> <<>>,
     round_winner |-> NoneVal,
     overall_winner |-> NoneVal,
     error_log |-> <<>>,
     next_agent |-> "moderator",
     competition_status |-> "preparing"]

\* BaseAgent.__init__: the metrics dictionary of a fresh agent.
\* success_rate is the fraction <<numerator, denominator>>.
InitMetrics ==
    [calls |-> 0, errors |-> 0, success_rate |-> <<1, 1>>, tool_calls |-> 0]

\* pydantic validation of CodingProblem (id and title have min_length=1).
CodingProblemValid(p) == p.id # "" /\ p.title # ""

\* CodeReview declared without the ge=0 bounds.
CodeReviewValid_NoLowerBound(r) ==
    /\ r.coderA_correctness_score <= 5
    /\ r.coderA_efficiency_score <= 3
    /\ r.coderA_quality_score <= 2
    /\ r.coderB_correctness_score <= 5
    /\ r.coderB_efficiency_score <= 3
    /\ r.coderB_quality_score <= 2
    /\ r.round_winner \in {"coderA", "coderB", "draw"}

\* pydantic validation of CodeReview (ge/le bounds and the Literal type).
CodeReviewValid(r) ==
    /\ r.coderA_correctness_score >= 0 /\ r.coderA_correctness_score <= 5
    /\ r.coderA_efficiency_score >= 0 /\ r.coderA_efficiency_score <= 3
    /\ r.coderA_quality_score >= 0 /\ r.coderA_quality_score <= 2
    /\ r.coderB_correctness_score >= 0 /\ r.coderB_correctness_score <= 5
    /\ r.coderB_efficiency_score >= 0 /\ r.coderB_efficiency_score <= 3
    /\ r.coderB_quality_score >= 0 /\ r.coderB_quality_score <= 2
    /\ r.round_winner \in {"coderA", "coderB", "draw"}

\* Result of a step that may raise: the state as the step left it (the
\* agents update the state dictionary in place) and the exception, if any.
Ok(st) == [state |-> st, exc |-> NoneVal]
Raise(st, e) == [state |-> st, exc |-> e]

\* The moderator handing the round to coderB.
ModeratorPost_ToCoderB(result, st) ==
    Ok([st EXCEPT !.problems = Append(@, result),
                  !.current_problem = result,
                  !.next_agent = "coderB",
                  !.competition_status = "active"])

\* The moderator recording the problem in the ledger only.
ModeratorPost_NoCurrent(result, st) ==
    Ok([st EXCEPT !.problems = Append(@, result),
                  !.next_agent = "coderA",
                  !.competition_status = "active"])

\* The moderator starting every round with both totals at zero.
ModeratorPost_ResetsScores(result, st) ==
    Ok([st EXCEPT !.problems = Append(@, result),
                  !.current_problem = result,
                  !.next_agent = "coderA",
                  !.competition_status = "active",
                  !.coderA_Score = 0,
                  !.coderB_Score = 0])

\* ModeratorAgent._post_process_result
ModeratorPost(result, st) ==
    Ok([st EXCEPT !.problems = Append(@, result),
                  !.current_problem = result,
                  !.next_agent = "coderA",
                  !.competition_status = "active"])

\* coderA handing the round straight to the reviewer.
CoderAPost_SkipB(result, st) ==
    LET s1 == [st EXCEPT !.coderA_submissions = Append(@, result),
                         !.next_agent = "reviewer"]
    IN IF result = NoneObj THEN Raise(s1, "AttributeError") ELSE Ok(s1)

\* CoderAAgent._post_process_result: the ledger and next_agent are written
\* before result.entrypoint is read, which raises when result is None.
CoderAPost(result, st) ==
    LET s1 == [st EXCEPT !.coderA_submissions = Append(@, result),
                         !.next_agent = "coderB"]
    IN IF result = NoneObj THEN Raise(s1, "AttributeError") ELSE Ok(s1)

\* coderB keeping only its latest submission.
CoderBPost_Replace(result, st) ==
    LET s1 == [st EXCEPT !.coderB_submissions = <<result>>,
                         !.next_agent = "reviewer"]
    IN IF result = NoneObj THEN Raise(s1, "AttributeError") ELSE Ok(s1)

\* CoderBAgent._post_process_result
CoderBPost(result, st) ==
    LET s1 == [st EXCEPT !.coderB_submissions = Append(@, result),
                         !.next_agent = "reviewer"]
    IN IF result = NoneObj THEN Raise(s1, "AttributeError") ELSE Ok(s1)

\* The last round detected one round early.
RoundsExhausted_Early(current_round, max_rounds) ==
    current_round + 1 >= max_rounds

\* The last round detected with a strict comparison.
RoundsExhausted_Strict(current_round, max_rounds) ==
    current_round > max_rounds

\* ReviewerAgent._post_process_result, the test `current_round >= max_rounds`.
RoundsExhausted(current_round, max_rounds) ==
    current_round >= max_rounds

\* A tie awarded to coderA.
OverallWinner_TieToA(scoreA, scoreB) ==
    IF scoreA >= scoreB THEN "coderA"
    ELSE IF scoreB > scoreA THEN "coderB"
    ELSE "draw"

\* ReviewerAgent._post_process_result, the overall winner of the final totals.
OverallWinner(scoreA, scoreB) ==
    IF scoreA > scoreB THEN "coderA"
    ELSE IF scoreB > scoreA THEN "coderB"
    ELSE "draw"

\* The final branch also stepping the round counter.
FinishCompetition_Increment(s1) ==
    [s1 EXCEPT !.overall_winner = OverallWinner(s1.coderA_Score, s1.coderB_Score),
               !.competition_status = "completed",
               !.next_agent = NoneVal,
               !.current_round = s1.current_round + 1]

\* ReviewerAgent._post_process_result, the branch taken after the last round.
FinishCompetition(s1) ==
    [s1 EXCEPT !.overall_winner = OverallWinner(s1.coderA_Score, s1.coderB_Score),
               !.competition_status = "completed",
               !.next_agent = NoneVal]

\* The next round prepared with the status left 'active'.
AdvanceRound_StaysActive(s1) ==
    [s1 EXCEPT !.current_round = s1.current_round + 1,
               !.next_agent = "moderator"]

\* The round counter stepped by two.
AdvanceRound_SkipRound(s1) ==
    [s1 EXCEPT !.current_round = s1.current_round + 2,
               !.next_agent = "moderator",
               !.competition_status = "preparing"]

\* The current leader recorded as overall winner after every round.
AdvanceRound_SetsWinner(s1) ==
    [s1 EXCEPT !.current_round = s1.current_round + 1,
               !.next_agent = "moderator",
               !.competition_status = "preparing",
               !.overall_winner = OverallWinner(s1.coderA_Score, s1.coderB_Score)]

\* ReviewerAgent._post_process_result, the branch taken when rounds remain.
AdvanceRound(s1) ==
    [s1 EXCEPT !.current_round = s1.current_round + 1,
               !.next_agent = "moderator",
               !.competition_status = "preparing"]

\* The round totals computed without the quality scores.
ReviewerPost_NoQuality(result, st) ==
    LET coderA_round_score == result.coderA_correctness_score
                              + result.coderA_efficiency_score
        coderB_round_score == result.coderB_correctness_score
                              + result.coderB_efficiency_score
        s1 == [st EXCEPT !.coderA_Score = @ + coderA_round_score,
                         !.coderB_Score = @ + coderB_round_score,
                         !.reviewer_comments = Append(@, st.current_round),
                         !.round_winner = result.round_winner]
    IN IF RoundsExhausted(s1.current_round, s1.max_rounds)
       THEN Ok(FinishCompetition(s1))
       ELSE Ok(AdvanceRound(s1))

\* The comment labelled with the round counter after its increment.
ReviewerPost_LabelNextRound(result, st) ==
    LET coderA_round_score == result.coderA_correctness_score
                              + result.coderA_efficiency_score
                              + result.coderA_quality_score
        coderB_round_score == result.coderB_correctness_score
                              + result.coderB_efficiency_score
                              + result.coderB_quality_score
        s1 == [st EXCEPT !.coderA_Score = @ + coderA_round_score,
                         !.coderB_Score = @ + coderB_round_score,
                         !.reviewer_comments = Append(@, st.current_round + 1),
                         !.round_winner = result.round_winner]
    IN IF RoundsExhausted(s1.current_round, s1.max_rounds)
       THEN Ok(FinishCompetition(s1))
       ELSE Ok(AdvanceRound(s1))

\* The round winner recomputed from the round totals.
ReviewerPost_WinnerFromTotals(result, st) ==
    LET coderA_round_score == result.coderA_correctness_score
                              + result.coderA_efficiency_score
                              + result.coderA_quality_score
        coderB_round_score == result.coderB_correctness_score
                              + result.coderB_efficiency_score
                              + result.coderB_quality_score
        s1 == [st EXCEPT !.coderA_Score = @ + coderA_round_score,
                         !.coderB_Score = @ + coderB_round_score,
                         !.reviewer_comments = Append(@, st.current_round),
                         !.round_winner = OverallWinner(coderA_round_score,
                                                        coderB_round_score)]
    IN IF RoundsExhausted(s1.current_round, s1.max_rounds)
       THEN Ok(FinishCompetition(s1))
       ELSE Ok(AdvanceRound(s1))

\* ReviewerAgent._post_process_result.  A comment string is kept as the
\* round number its "Round {n} - ..." label carries.
ReviewerPost(result, st) ==
    LET coderA_round_score == result.coderA_correctness_score
                              + result.coderA_efficiency_score
                              + result.coderA_quality_score
        coderB_round_score == result.coderB_correctness_score
                              + result.coderB_efficiency_score
                              + result.coderB_quality_score
        s1 == [st EXCEPT !.coderA_Score = @ + coderA_round_score,
                         !.coderB_Score = @ + coderB_round_score,
                         !.reviewer_comments = Append(@, st.current_round),
                         !.round_winner = result.round_winner]
    IN IF RoundsExhausted(s1.current_round, s1.max_rounds)
       THEN Ok(FinishCompetition(s1))
       ELSE Ok(AdvanceRound(s1))

\* The reviewer's chain built without its parse step.
Chain_NoReviewParse(agent, out) ==
    IF out = LLMError THEN [ok |-> FALSE, exc |-> "LLMError"]
    ELSE CASE agent = "moderator" ->
                IF CodingProblemValid(out) THEN [ok |-> TRUE, result |-> out]
                ELSE [ok |-> FALSE, exc |-> "OutputParserException"]
           [] OTHER -> [ok |-> TRUE, result |-> out]

\* The agent's chain after the model call: _parse_result / _validate_result.
\* The moderator and the reviewer parse into their pydantic model; the coders
\* (use_structured_output) pass the model's result through.
Chain(agent, out) ==
    IF out = LLMError THEN [ok |-> FALSE, exc |-> "LLMError"]
    ELSE CASE agent = "moderator" ->
                IF CodingProblemValid(out) THEN [ok |-> TRUE, result |-> out]
                ELSE [ok |-> FALSE, exc |-> "OutputParserException"]
           [] agent = "reviewer" ->
                IF out.type = "CodeReview" /\ CodeReviewValid(out)
                THEN [ok |-> TRUE, result |-> out]
                ELSE [ok |-> FALSE, exc |-> "OutputParserException"]
           [] OTHER -> [ok |-> TRUE, result |-> out]

PostProcess(agent, result, st) ==
    CASE agent = "moderator" -> ModeratorPost(result, st)
      [] agent = "coderA" -> CoderAPost(result, st)
      [] agent = "coderB" -> CoderBPost(result, st)
      [] agent = "reviewer" -> ReviewerPost(result, st)

\* BaseAgent.__call__, the try block: chain, then post-processing.
TryTurn(agent, out, st) ==
    LET c == Chain(agent, out)
    IN IF c.ok THEN PostProcess(agent, c.result, st) ELSE Raise(st, c.exc)

\* BaseAgent.__call__, the entry written to error_log:
\* f"{self.role.value} Error: {str(e)}", kept as <<role value, exception>>.
ErrorMessage(agent, exc) == <<AgentRole[agent], exc>>

\* The except block flipping the status without recording the error.
Call_NoLog(agent, out, st) ==
    LET t == TryTurn(agent, out, st)
    IN IF t.exc = NoneVal THEN t.state
       ELSE [t.state EXCEPT !.competition_status = "error"]

\* BaseAgent.__call__, the state it returns: the post-processed state, or on
\* an exception {**state, error_log + [msg], competition_status: "error"}.
Call(agent, out, st) ==
    LET t == TryTurn(agent, out, st)
    IN IF t.exc = NoneVal THEN t.state
       ELSE [t.state EXCEPT
                !.error_log = Append(@, ErrorMessage(agent, t.exc)),
                !.competition_status = "error"]

\* BaseAgent.__call__, the state dictionary it was handed, as the call
\* leaves it: post-processing updates it in place, and the except block
\* appends to the list it got from state.get("error_log") -- the received
\* dictionary's own list -- while the status goes into the new dictionary.
ReceivedAfterCall(agent, out, st) ==
    LET t == TryTurn(agent, out, st)
    IN IF t.exc = NoneVal THEN t.state
       ELSE [t.state EXCEPT
                !.error_log = Append(@, ErrorMessage(agent, t.exc))]

\* BaseAgent.__call__, the metrics on entry: calls is incremented.
MetricsOnEntry(m) == [m EXCEPT !.calls = @ + 1]

\* The except block recomputing success_rate without counting the error.
MetricsOnExit_NoErrorCount(exc, m1) ==
    IF exc = NoneVal THEN m1
    ELSE [m1 EXCEPT !.success_rate =
                        <<m1.calls - (m1.errors + 1),
                          IF m1.calls > 1 THEN m1.calls ELSE 1>>]

\* BaseAgent.__call__, the metrics on exit: the except block counts the
\* error and recomputes success_rate; the success path leaves them.
MetricsOnExit(exc, m1) ==
    IF exc = NoneVal THEN m1
    ELSE [m1 EXCEPT !.errors = @ + 1,
                    !.success_rate =
                        <<m1.calls - (m1.errors + 1),
                          IF m1.calls > 1 THEN m1.calls ELSE 1>>]

\* BaseAgent.__call__, the metrics of the acting agent after the call.
CallMetrics(agent, out, st, m) ==
    MetricsOnExit(TryTurn(agent, out, st).exc, MetricsOnEntry(m))

\* The router without its error check.
_route_next_IgnoreError(st) ==
    IF st.competition_status = "completed" \/ st.next_agent = NoneVal
    THEN "end"
    ELSE IF st.next_agent = "moderator" THEN "moderator"
    ELSE IF st.next_agent = "coderA" THEN "coderA"
    ELSE IF st.next_agent = "coderB" THEN "coderB"
    ELSE IF st.next_agent = "reviewer" THEN "reviewer"
    ELSE "end"

\* CodingCompetitionGraph._route_next
_route_next(st) ==
    IF st.competition_status = "error" THEN "end"
    ELSE IF st.competition_status = "completed" \/ st.next_agent = NoneVal
         THEN "end"
    ELSE IF st.next_agent = "moderator" THEN "moderator"
    ELSE IF st.next_agent = "coderA" THEN "coderA"
    ELSE IF st.next_agent = "coderB" THEN "coderB"
    ELSE IF st.next_agent = "reviewer" THEN "reviewer"
    ELSE "end"

\* BaseAgent.get_metrics: the stored counters, with the agent's role (the
\* average execution time is not kept).
get_metrics(agent, m) ==
    [calls |-> m.calls, errors |-> m.errors, success_rate |-> m.success_rate,
     tool_calls |-> m.tool_calls, role |-> AgentRole[agent]]

\* -------------------------------------------------------------- actions
\* No turn has run yet in the current run.
NoTurn == [agent |-> NoneVal, ok |-> TRUE, out |-> NoneObj]

\* No chain is running.
IdleChain ==
    [stage |-> "idle", response |-> NoneObj, tool_calls |-> <<>>,
     messages |-> <<>>, llm_calls |-> 0]

Init ==
    /\ config \in 1..MaxRoundsCfg
    /\ state = _initialize_state(config)
    /\ metrics = [a \in Agents |-> InitMetrics]
    /\ pc = "idle"
    /\ node = NoneVal
    /\ run = 0
    /\ fromDefault = TRUE
    /\ nturns = 0
    /\ lastTurn = NoTurn
    /\ failed = FALSE
    /\ reviews = 0
    /\ chain = IdleChain

\* run_competition entered: the graph's entry point is the moderator node.
StartRun(initial_state, isDefault) ==
    /\ run' = run + 1
    /\ state' = initial_state
    /\ fromDefault' = isDefault
    /\ pc' = "node"
    /\ node' = "moderator"
    /\ nturns' = 0
    /\ lastTurn' = NoTurn
    /\ failed' = FALSE
    /\ reviews' = 0
    /\ UNCHANGED <<config, metrics, chain>>

\* run_competition() with no initial_state, the controller's first run.
RunCompetitionDefault ==
    /\ pc = "idle"
    /\ StartRun(_initialize_state(config), TRUE)

\* Calls made so far on the controller's four agents.
TotalCalls ==
    metrics["moderator"].calls + metrics["coderA"].calls
    + metrics["coderB"].calls + metrics["reviewer"].calls

\* run_competition() with no initial_state, after an earlier run returned.
RunCompetitionAgain ==
    /\ pc = "end"
    /\ TotalCalls < MaxCalls
    /\ StartRun(_initialize_state(config), TRUE)

\* run_competition(initial_state) with the final state of the previous run.
RunCompetitionResume ==
    /\ pc = "end"
    /\ TotalCalls < MaxCalls
    /\ StartRun(state, FALSE)

\* A node handing over to the next agent itself, without the router.
Turn_SkipsRouter(agent) ==
    /\ pc = "node"
    /\ node = agent
    /\ chain.stage = "idle"
    /\ \E out \in ModelOutputs(agent) :
         LET ok == TryTurn(agent, out, state).exc = NoneVal
         IN /\ state' = Call(agent, out, state)
            /\ metrics' = [metrics EXCEPT
                              ![agent] = CallMetrics(agent, out, state, @)]
            /\ lastTurn' = [agent |-> agent, ok |-> ok, out |-> out]
            /\ failed' = (failed \/ ~ok)
            /\ reviews' = IF agent = "reviewer" /\ ok THEN reviews + 1
                          ELSE reviews
            /\ IF state'.next_agent \in Agents
               THEN pc' = "node" /\ node' = state'.next_agent
               ELSE pc' = "end" /\ node' = NoneVal
    /\ nturns' = nturns + 1
    /\ UNCHANGED <<config, run, fromDefault, chain>>

\* One graph node: the agent named `agent` is called on the state.
Turn(agent) ==
    /\ pc = "node"
    /\ node = agent
    /\ chain.stage = "idle"
    /\ \E out \in ModelOutputs(agent) :
         LET ok == TryTurn(agent, out, state).exc = NoneVal
         IN /\ state' = Call(agent, out, state)
            /\ metrics' = [metrics EXCEPT
                              ![agent] = CallMetrics(agent, out, state, @)]
            /\ lastTurn' = [agent |-> agent, ok |-> ok, out |-> out]
            /\ failed' = (failed \/ ~ok)
            /\ reviews' = IF agent = "reviewer" /\ ok THEN reviews + 1
                          ELSE reviews
    /\ nturns' = nturns + 1
    /\ pc' = "route"
    /\ UNCHANGED <<config, node, run, fromDefault, chain>>

ModeratorTurn == Turn("moderator")
CoderATurn == Turn("coderA")
CoderBTurn == Turn("coderB")
ReviewerTurn == Turn("reviewer")

\* A router that clears next_agent when it ends the run.
Route_ClearsNextAgent ==
    /\ pc = "route"
    /\ LET r == _route_next(state)
       IN IF r = "end"
          THEN /\ pc' = "end" /\ node' = NoneVal
               /\ state' = [state EXCEPT !.next_agent = NoneVal]
          ELSE pc' = "node" /\ node' = r /\ state' = state
    /\ UNCHANGED <<config, metrics, run, fromDefault, nturns,
                   lastTurn, failed, reviews, chain>>

\* The conditional edge after a node: _route_next picks the next node or END.
Route ==
    /\ pc = "route"
    /\ LET r == _route_next(state)
       IN IF r = "end"
          THEN pc' = "end" /\ node' = NoneVal
          ELSE pc' = "node" /\ node' = r
    /\ UNCHANGED <<config, state, metrics, run, fromDefault, nturns,
                   lastTurn, failed, reviews, chain>>

\* One run of the competition from the default initial state.
Next ==
    \/ RunCompetitionDefault
    \/ ModeratorTurn
    \/ CoderATurn
    \/ CoderBTurn
    \/ ReviewerTurn
    \/ Route

Spec == Init /\ [][Next]_vars

\* The same run under the scheduling the graph gives it: a node that is
\* ready runs and the agent's external call returns or raises, so a step
\* that can be taken is eventually taken.
SpecFair == Init /\ [][Next]_vars /\ WF_vars(Next)

\* A controller used for several runs, each started from the default state
\* or from the state the previous run returned, up to MaxCalls agent calls.
BoundedModeratorTurn == TotalCalls < MaxCalls /\ ModeratorTurn
BoundedCoderATurn == TotalCalls < MaxCalls /\ CoderATurn
BoundedCoderBTurn == TotalCalls < MaxCalls /\ CoderBTurn
BoundedReviewerTurn == TotalCalls < MaxCalls /\ ReviewerTurn

NextController ==
    \/ RunCompetitionDefault
    \/ RunCompetitionAgain
    \/ RunCompetitionResume
    \/ BoundedModeratorTurn
    \/ BoundedCoderATurn
    \/ BoundedCoderBTurn
    \/ BoundedReviewerTurn
    \/ Route

SpecController == Init /\ [][NextController]_vars

\* ------------------------------------------------- the router on its own
\* Values of competition_status and next_agent a state handed to the router
\* may carry: the declared statuses; the declared role tokens, None, and a
\* role token the graph has no node for.
RouterStatuses == {"preparing", "active", "completed", "error"}
RouterNextAgents == Agents \cup {NoneVal, "aggregator"}

\* States handed to _route_next.  A state with status 'error' carries a
\* non-empty error_log, as __call__ leaves it.
RouterInputs ==
    {[_initialize_state(m) EXCEPT !.competition_status = s,
                                  !.next_agent = n,
                                  !.current_round = r,
                                  !.error_log = e] :
        m \in 1..MaxRoundsCfg, s \in RouterStatuses, n \in RouterNextAgents,
        r \in 1..MaxRoundsCfg,
        e \in {<<>>, <<<<"coder", "LLMError">>>>}}

InitRouter ==
    /\ config \in 1..MaxRoundsCfg
    /\ state \in {st \in RouterInputs :
                     /\ st.max_rounds = config
                     /\ st.current_round <= config
                     /\ st.competition_status = "error" => st.error_log # <<>>}
    /\ metrics = [a \in Agents |-> InitMetrics]
    /\ pc = "route"
    /\ node = NoneVal
    /\ run = 1
    /\ fromDefault = FALSE
    /\ nturns = 1
    /\ lastTurn = NoTurn
    /\ failed = FALSE
    /\ reviews = 0
    /\ chain = IdleChain

\* The conditional edge applied to each such state.
NextRouter == Route

SpecRouter == InitRouter /\ [][NextRouter]_vars

\* ------------------------------------- the Reviewer's turn, step by step
\* Names in the Reviewer's tool_map (REVIEWER_TOOLS).
ToolMap == {"execute_code_sandbox", "run_test_suite"}

\* Tool names a model response may ask for: the Reviewer's two tools and one
\* that is not in its tool_map.
RequestedTools == ToolMap \cup {"fetch_code_problem"}

\* The tool_calls lists of a model response that asks for tools.
ToolCallLists == UNION {[1..n -> RequestedTools] : n \in 1..MaxToolCalls}

\* A model response carrying tool calls (and no parseable content).
ToolCallMessages ==
    {[type |-> "AIMessage", tool_calls |-> tcs] : tcs \in ToolCallLists}

\* What a tool's invoke does: it returns a result or raises.
ToolOutcomes == {"returns", "raises"}

\* What the Reviewer's model can answer to one invocation.
ReviewerResponses == ReviewerOutputs \cup ToolCallMessages

ToolResult(name, content, counted, exc) ==
    [message |-> [type |-> "ToolMessage", tool |-> name, content |-> content],
     counted |-> counted, exc |-> exc]

\* _execute_tool with its try/except left out: the tool's exception escapes.
_execute_tool_Propagate(tool_name, outcome) ==
    IF tool_name \notin ToolMap
    THEN ToolResult(tool_name, "Error: Tool not found", 0, NoneVal)
    ELSE IF outcome = "raises"
    THEN ToolResult(tool_name, "Error executing", 0, "ToolException")
    ELSE ToolResult(tool_name, "result", 1, NoneVal)

\* _execute_tool counting the invocation before the tool is invoked.
_execute_tool_CountsAttempts(tool_name, outcome) ==
    IF tool_name \notin ToolMap
    THEN ToolResult(tool_name, "Error: Tool not found", 0, NoneVal)
    ELSE IF outcome = "raises"
    THEN ToolResult(tool_name, "Error executing", 1, NoneVal)
    ELSE ToolResult(tool_name, "result", 1, NoneVal)

\* BaseAgent._execute_tool: the ToolMessage produced, the increment of
\* metrics["tool_calls"], and the exception leaving the method (none: a
\* missing tool and a raising tool both become an error message).
_execute_tool(tool_name, outcome) ==
    IF tool_name \notin ToolMap
    THEN ToolResult(tool_name, "Error: Tool not found", 0, NoneVal)
    ELSE IF outcome = "raises"
    THEN ToolResult(tool_name, "Error executing", 0, NoneVal)
    ELSE ToolResult(tool_name, "result", 1, NoneVal)

\* BaseAgent._handle_tool_calls, the loop over the first n tool calls: the
\* messages appended, in order, and the tool_calls counted.
RECURSIVE ExecuteToolCalls(_, _, _)
ExecuteToolCalls(tool_calls, outcomes, n) ==
    IF n = 0 THEN [messages |-> <<>>, counted |-> 0, exc |-> NoneVal]
    ELSE LET prev == ExecuteToolCalls(tool_calls, outcomes, n - 1)
             r == _execute_tool(tool_calls[n], outcomes[n])
         IN IF prev.exc # NoneVal THEN prev
            ELSE [messages |-> Append(prev.messages, r.message),
                  counted |-> prev.counted + r.counted,
                  exc |-> r.exc]

\* The state the Reviewer is first called on: the moderator, coderA and
\* coderB turns of round 1 have succeeded.
ReviewerTurnState(max_rounds) ==
    LET p == [type |-> "CodingProblem", id |-> "p1", title |-> "t"]
        s1 == ModeratorPost(p, _initialize_state(max_rounds)).state
        s2 == CoderAPost(Submission, s1).state
    IN CoderBPost(Submission, s2).state

InitTools ==
    /\ config \in 1..MaxRoundsCfg
    /\ state = ReviewerTurnState(config)
    /\ metrics = [a \in Agents |-> IF a = "reviewer" THEN InitMetrics
                                    ELSE MetricsOnEntry(InitMetrics)]
    /\ pc = "node"
    /\ node = "reviewer"
    /\ run = 1
    /\ fromDefault = TRUE
    /\ nturns = 3
    /\ lastTurn = [agent |-> "coderB", ok |-> TRUE, out |-> Submission]
    /\ failed = FALSE
    /\ reviews = 0
    /\ chain = IdleChain

\* __call__ entered and the chain run up to the model's first response.
ReviewerInvoke ==
    /\ pc = "node" /\ node = "reviewer"
    /\ chain.stage = "idle"
    /\ metrics' = [metrics EXCEPT !["reviewer"] = MetricsOnEntry(@)]
    /\ \E resp \in ReviewerResponses :
         chain' = [stage |-> IF resp.type = "AIMessage" THEN "tools"
                             ELSE "parse",
                   response |-> resp,
                   tool_calls |-> IF resp.type = "AIMessage"
                                  THEN resp.tool_calls ELSE <<>>,
                   messages |-> <<>>,
                   llm_calls |-> 1]
    /\ UNCHANGED <<config, state, pc, node, run, fromDefault, nturns,
                   lastTurn, failed, reviews>>

\* A tool loop: a second response that asks for tools gets them executed too.
ReviewerHandleToolCalls_Loop ==
    /\ chain.stage = "tools"
    /\ \E outcomes \in [1..Len(chain.tool_calls) -> ToolOutcomes],
          resp2 \in ReviewerResponses :
         LET r == ExecuteToolCalls(chain.tool_calls, outcomes,
                                   Len(chain.tool_calls))
         IN /\ metrics' = [metrics EXCEPT
                              !["reviewer"].tool_calls = @ + r.counted]
            /\ chain' = IF resp2.type = "AIMessage"
                         THEN [chain EXCEPT !.response = resp2,
                                            !.tool_calls = resp2.tool_calls,
                                            !.messages = r.messages,
                                            !.llm_calls = @ + 1]
                         ELSE [chain EXCEPT !.stage = "parse",
                                            !.response = resp2,
                                            !.messages = r.messages,
                                            !.llm_calls = @ + 1]
    /\ UNCHANGED <<config, state, pc, node, run, fromDefault, nturns,
                   lastTurn, failed, reviews>>

\* _handle_tool_calls on a response with tool calls: every tool call is
\* executed, then the model is invoked again with the tool messages.
ReviewerHandleToolCalls ==
    /\ chain.stage = "tools"
    /\ \E outcomes \in [1..Len(chain.tool_calls) -> ToolOutcomes],
          resp2 \in ReviewerResponses :
         LET r == ExecuteToolCalls(chain.tool_calls, outcomes,
                                   Len(chain.tool_calls))
         IN /\ metrics' = [metrics EXCEPT
                              !["reviewer"].tool_calls = @ + r.counted]
            /\ chain' = IF r.exc # NoneVal
                         THEN [chain EXCEPT !.stage = "parse",
                                            !.response = LLMError,
                                            !.messages = r.messages]
                         ELSE [chain EXCEPT !.stage = "parse",
                                            !.response = resp2,
                                            !.messages = r.messages,
                                            !.llm_calls = @ + 1]
    /\ UNCHANGED <<config, state, pc, node, run, fromDefault, nturns,
                   lastTurn, failed, reviews>>

\* The rest of the turn: _parse_result on the latest response,
\* _post_process_result, and __call__'s return or except block.
ReviewerFinish ==
    /\ chain.stage = "parse"
    /\ LET out == chain.response
           t == TryTurn("reviewer", out, state)
           ok == t.exc = NoneVal
       IN /\ state' = Call("reviewer", out, state)
          /\ metrics' = [metrics EXCEPT
                            !["reviewer"] = MetricsOnExit(t.exc, @)]
          /\ lastTurn' = [agent |-> "reviewer", ok |-> ok, out |-> out]
          /\ failed' = (failed \/ ~ok)
          /\ reviews' = IF ok THEN reviews + 1 ELSE reviews
    /\ nturns' = nturns + 1
    /\ pc' = "route"
    /\ chain' = [chain EXCEPT !.stage = "done"]
    /\ UNCHANGED <<config, node, run, fromDefault>>

NextTools ==
    \/ ReviewerInvoke
    \/ ReviewerHandleToolCalls
    \/ ReviewerFinish
    \/ Route

SpecTools == InitTools /\ [][NextTools]_vars

TypeOK ==
    /\ config \in 1..MaxRoundsCfg
    /\ pc \in {"idle", "node", "route", "end"}
    /\ node \in Agents \cup {NoneVal}
    /\ run \in Nat
    /\ state.competition_status \in {"preparing", "active", "completed", "error"}

\* ---------------------------------------------------------------- claims
\* A step that executes one agent turn of the current run.
TurnStep == run' = run /\ nturns' = nturns + 1

\* A step in which the Reviewer's turn succeeds.
ReviewStep == TurnStep /\ lastTurn'.agent = "reviewer" /\ lastTurn'.ok

\* C1: in a run from the default initial state with max_rounds = N in which
\* no turn fails, status is 'completed' only after exactly N successful
\* Reviewer turns, and a run that ends without a failure ends completed.
C1_ExactlyNReviews ==
    /\ (fromDefault /\ ~failed /\ state.competition_status = "completed")
          => reviews = config
    /\ (fromDefault /\ ~failed /\ reviews < config)
          => state.competition_status # "completed"
    /\ (fromDefault /\ ~failed /\ pc = "end")
          => state.competition_status = "completed"

C1_Witness ==
    /\ fromDefault /\ ~failed /\ pc = "end"
    /\ config = 2 /\ reviews = 2
    /\ state.competition_status = "completed"

\* C2: once a turn of a run has failed, status is 'error' in every later
\* state of that run (the returned final state included) and no further
\* agent turn executes in that run.
C2_ErrorShortCircuit ==
    /\ [](failed => state.competition_status = "error")
    /\ [][(failed /\ run' = run) => (nturns' = nturns /\ failed')]_vars

C2_Witness ==
    /\ failed /\ pc = "end" /\ nturns = 2
    /\ lastTurn.agent = "coderA" /\ ~lastTurn.ok
    /\ state.competition_status = "error"

\* C3: no agent turn executes on a state whose status is 'error' or
\* 'completed', also when the run was given the final state of an earlier
\* run as its initial_state.
C3_NoTurnOnTerminal ==
    [][TurnStep => state.competition_status \notin {"error", "completed"}]_vars

\* C4: no step of a run (successful turn, failed turn, routing) decreases
\* coderA_Score or coderB_Score.
C4_MonotonicScores ==
    [][(run' = run) => /\ state'.coderA_Score >= state.coderA_Score
                       /\ state'.coderB_Score >= state.coderB_Score]_vars

C4_Witness ==
    /\ Len(state.reviewer_comments) = 2
    /\ state.coderA_Score = 13 /\ state.coderB_Score = 7

\* C5: in every completed state overall_winner is 'coderA' iff coderA_Score
\* is the larger total, 'coderB' iff coderB_Score is, and 'draw' iff the
\* totals are equal.
C5_WinnerDeterminism ==
    state.competition_status = "completed" =>
        /\ (state.overall_winner = "coderA")
              <=> (state.coderA_Score > state.coderB_Score)
        /\ (state.overall_winner = "coderB")
              <=> (state.coderB_Score > state.coderA_Score)
        /\ (state.overall_winner = "draw")
              <=> (state.coderA_Score = state.coderB_Score)

\* A two-round run ending 7 and 7.
C5_Witness ==
    /\ state.competition_status = "completed"
    /\ Len(state.reviewer_comments) = 2
    /\ state.coderA_Score = 7 /\ state.coderB_Score = 7
    /\ state.overall_winner = "draw"

\* The six sub-scores of a review lie in [0,5], [0,3] and [0,2].
SubScoresInRange(r) ==
    /\ r.coderA_correctness_score \in 0..5
    /\ r.coderA_efficiency_score \in 0..3
    /\ r.coderA_quality_score \in 0..2
    /\ r.coderB_correctness_score \in 0..5
    /\ r.coderB_efficiency_score \in 0..3
    /\ r.coderB_quality_score \in 0..2

\* C6: a review folded into the totals has all six sub-scores in range, and
\* a Reviewer turn handed a review with a sub-score out of range fails
\* leaving both totals, reviewer_comments and current_round unchanged.
C6_BoundedSubScores ==
    [][(TurnStep /\ lastTurn'.agent = "reviewer"
                 /\ lastTurn'.out.type = "CodeReview") =>
          /\ lastTurn'.ok => SubScoresInRange(lastTurn'.out)
          /\ ~SubScoresInRange(lastTurn'.out) =>
                /\ ~lastTurn'.ok
                /\ state'.competition_status = "error"
                /\ state'.coderA_Score = state.coderA_Score
                /\ state'.coderB_Score = state.coderB_Score
                /\ state'.reviewer_comments = state.reviewer_comments
                /\ state'.current_round = state.current_round]_vars

C6_Witness ==
    /\ lastTurn.agent = "reviewer" /\ ~lastTurn.ok
    /\ lastTurn.out.type = "CodeReview"
    /\ lastTurn.out.coderB_efficiency_score = 4
    /\ Len(state.reviewer_comments) = 1
    /\ state.current_round = 2
    /\ Len(state.error_log) = 1

\* C7: while status is 'active' or 'preparing', current_round <= max_rounds.
C7_RoundWithinMax ==
    state.competition_status \in {"active", "preparing"}
        => state.current_round <= state.max_rounds

C7_Witness ==
    /\ state.competition_status = "preparing"
    /\ state.max_rounds = 2 /\ state.current_round = 2
    /\ Len(state.reviewer_comments) = 1

\* C8: a successful Reviewer turn taken with current_round >= max_rounds
\* sets status 'completed', next_agent None and overall_winner, and leaves
\* current_round unchanged.
C8_FinalReview ==
    [][(ReviewStep /\ state.current_round >= state.max_rounds) =>
          /\ state'.competition_status = "completed"
          /\ state'.next_agent = NoneVal
          /\ state'.overall_winner \in {"coderA", "coderB", "draw"}
          /\ state'.current_round = state.current_round]_vars

C8_Witness ==
    /\ lastTurn.agent = "reviewer" /\ lastTurn.ok
    /\ state.competition_status = "completed"
    /\ state.next_agent = NoneVal
    /\ state.current_round = 2 /\ state.max_rounds = 2
    /\ state.overall_winner = "coderB"

\* C9: in a run from the default initial state, at a round boundary (status
\* 'preparing' or 'completed') with k reviews completed, the problems ledger
\* and both submission ledgers have exactly k entries.
C9_RoundCompleteness ==
    (fromDefault /\ state.competition_status \in {"preparing", "completed"}) =>
        LET k == Len(state.reviewer_comments)
        IN /\ Len(state.problems) = k
           /\ Len(state.coderA_submissions) = k
           /\ Len(state.coderB_submissions) = k

C9_Witness ==
    /\ fromDefault /\ state.competition_status = "preparing"
    /\ Len(state.reviewer_comments) = 1
    /\ Len(state.problems) = 1
    /\ Len(state.coderA_submissions) = 1
    /\ Len(state.coderB_submissions) = 1

\* The turn that follows a turn of each agent.
NextInCycle ==
    [moderator |-> "coderA", coderA |-> "coderB", coderB |-> "reviewer",
     reviewer |-> "moderator"]

\* The agent of the n-th turn (n >= 1) of (moderator, coderA, coderB,
\* reviewer) repeated.
CycleAt(n) ==
    <<"moderator", "coderA", "coderB", "reviewer">>[((n - 1) % 4) + 1]

\* C10: in a run from the default initial state the n-th executed turn is
\* the n-th of (moderator, coderA, coderB, reviewer) repeated, and every
\* turn but the first directly follows a successful turn of its predecessor
\* in that cycle.
C10_TurnOrdering ==
    /\ []((fromDefault /\ nturns > 0) => lastTurn.agent = CycleAt(nturns))
    /\ [][(fromDefault /\ TurnStep) =>
             IF nturns = 0
             THEN lastTurn'.agent = "moderator"
             ELSE /\ lastTurn.ok
                  /\ lastTurn'.agent = NextInCycle[lastTurn.agent]]_vars

C10_Witness ==
    /\ fromDefault /\ nturns = 5
    /\ lastTurn.agent = "moderator" /\ lastTurn.ok

\* The router's decision table as the claim states it.
RouterTable(status, next_agent) ==
    IF status = "error" THEN "end"
    ELSE IF status = "completed" \/ next_agent = NoneVal THEN "end"
    ELSE IF next_agent \in {"moderator", "coderA", "coderB", "reviewer"}
         THEN next_agent
    ELSE "end"

FailedTurnStep == TurnStep /\ ~lastTurn'.ok

\* C12: a turn that raises is caught by the executor, which returns (the
\* graph goes on to its router) a state with status 'error' whose error_log
\* has exactly one more entry than before the turn.
C12_FailureCapture ==
    [][FailedTurnStep =>
          /\ pc' = "route"
          /\ state'.competition_status = "error"
          /\ Len(state'.error_log) = Len(state.error_log) + 1]_vars

\* A second failure, in a run resumed from the state a failed run returned.
C12_Witness ==
    /\ ~lastTurn.ok /\ pc = "route"
    /\ state.competition_status = "error"
    /\ Len(state.error_log) = 2

\* C13: a failed turn leaves every field other than error_log and
\* competition_status exactly as it was before the turn started.
C13_FailedTurnFrame ==
    [][FailedTurnStep =>
          /\ state'.problems = state.problems
          /\ state'.current_problem = state.current_problem
          /\ state'.coderA_submissions = state.coderA_submissions
          /\ state'.coderB_submissions = state.coderB_submissions
          /\ state'.coderA_Score = state.coderA_Score
          /\ state'.coderB_Score = state.coderB_Score
          /\ state'.reviewer_comments = state.reviewer_comments
          /\ state'.current_round = state.current_round
          /\ state'.round_winner = state.round_winner
          /\ state'.overall_winner = state.overall_winner
          /\ state'.next_agent = state.next_agent]_vars

\* The round total a review gives each coder.
RoundTotalA(r) ==
    r.coderA_correctness_score + r.coderA_efficiency_score
    + r.coderA_quality_score
RoundTotalB(r) ==
    r.coderB_correctness_score + r.coderB_efficiency_score
    + r.coderB_quality_score

\* C14: a successful Reviewer turn adds each coder's three sub-scores to
\* that coder's running total (the old total is kept, not reset), and each
\* round total is at most 10.
C14_ScoreFolding ==
    [][ReviewStep =>
          /\ state'.coderA_Score
                = state.coderA_Score + RoundTotalA(lastTurn'.out)
          /\ state'.coderB_Score
                = state.coderB_Score + RoundTotalB(lastTurn'.out)
          /\ state'.coderA_Score - state.coderA_Score <= 10
          /\ state'.coderB_Score - state.coderB_Score <= 10]_vars

\* A second review folded onto the totals of the first.
C14_Witness ==
    /\ lastTurn.agent = "reviewer" /\ lastTurn.ok
    /\ Len(state.reviewer_comments) = 2
    /\ RoundTotalA(lastTurn.out) = 4 /\ state.coderA_Score = 14
    /\ RoundTotalB(lastTurn.out) = 10 /\ state.coderB_Score = 13

\* A step in which the Reviewer's turn succeeds while rounds remain.
AdvancingReviewStep ==
    ReviewStep /\ state.current_round < state.max_rounds

\* C15: a successful Reviewer turn taken with current_round < max_rounds
\* increments current_round by exactly 1 and sets next_agent 'moderator' and
\* status 'preparing'; no other step of a run changes current_round.
C15_RoundAdvance ==
    /\ [][AdvancingReviewStep =>
             /\ state'.current_round = state.current_round + 1
             /\ state'.next_agent = "moderator"
             /\ state'.competition_status = "preparing"]_vars
    /\ [][(run' = run /\ ~AdvancingReviewStep) =>
             state'.current_round = state.current_round]_vars

C15_Witness ==
    /\ pc = "node" /\ node = "moderator"
    /\ lastTurn.agent = "reviewer" /\ lastTurn.ok
    /\ state.current_round = 2 /\ state.next_agent = "moderator"
    /\ state.competition_status = "preparing"

\* The review of the N=1 scenario: A gets (5, 3, 2), B gets (2, 1, 0).
ScenarioReview == MkReview(5, 3, 2, 2, 1, 0, "coderA")

\* The scenario's run has just had its Reviewer turn.
ScenarioDone ==
    /\ fromDefault /\ config = 1 /\ nturns = 4 /\ ~failed
    /\ lastTurn.agent = "reviewer" /\ lastTurn.out = ScenarioReview

\* C16: with max_rounds = 1, after the moderator, coderA and coderB turns
\* succeed and the Reviewer scores A (5, 3, 2) and B (2, 1, 0), the state has
\* coderA_Score 10, coderB_Score 3, round_winner and overall_winner
\* 'coderA', status 'completed' and next_agent None.
C16_ScenarioOneRound ==
    ScenarioDone =>
        /\ state.coderA_Score = 10
        /\ state.coderB_Score = 3
        /\ state.round_winner = "coderA"
        /\ state.overall_winner = "coderA"
        /\ state.competition_status = "completed"
        /\ state.next_agent = NoneVal

C16_Witness == ScenarioDone /\ pc = "end"

\* C17: every turn the controller executes, the first turn of a run
\* included, is the turn of the role named by next_agent in the state at
\* that moment, also when the run was given an initial_state by the caller.
C17_TurnIsNextAgent ==
    [][TurnStep => lastTurn'.agent = state.next_agent]_vars

\* C18: in a run from the default initial state overall_winner is non-null
\* only when status is 'completed'; a run that ends in 'error' has
\* overall_winner None.
C18_WinnerOnlyAtCompletion ==
    fromDefault =>
        /\ state.overall_winner # NoneVal
              => state.competition_status = "completed"
        /\ state.competition_status = "error"
              => state.overall_winner = NoneVal

\* A run that fails after its first review, totals already folded.
C18_Witness ==
    /\ fromDefault /\ pc = "end"
    /\ state.competition_status = "error"
    /\ Len(state.reviewer_comments) = 1
    /\ state.coderA_Score = 10
    /\ state.overall_winner = NoneVal

\* C20: the state _initialize_state produces has empty ledgers, both scores
\* 0, current_round 1, max_rounds as configured, status 'preparing',
\* next_agent 'moderator', empty reviewer_comments and error_log, and null
\* current_problem, round_winner and overall_winner.
C20_InitialState ==
    (fromDefault /\ pc = "node" /\ nturns = 0) =>
        /\ state.problems = <<>>
        /\ state.coderA_submissions = <<>>
        /\ state.coderB_submissions = <<>>
        /\ state.coderA_Score = 0 /\ state.coderB_Score = 0
        /\ state.current_round = 1
        /\ state.max_rounds = config
        /\ state.competition_status = "preparing"
        /\ state.next_agent = "moderator"
        /\ state.reviewer_comments = <<>>
        /\ state.error_log = <<>>
        /\ state.current_problem = NoneObj
        /\ state.round_winner = NoneVal
        /\ state.overall_winner = NoneVal

\* A second run of the controller, started again without an initial_state
\* after a run that left scores and ledgers behind.
C20_Witness ==
    /\ fromDefault /\ pc = "node" /\ nturns = 0
    /\ run = 2 /\ config = 2 /\ state.max_rounds = 2
    /\ metrics["reviewer"].calls = 1

\* Some tool call of the turn failed: the tool was missing or it raised.
HasFailedToolCall ==
    \E i \in 1..Len(chain.messages) : chain.messages[i].content # "result"

\* C19: a tool call that fails during a turn (tool missing from the tool
\* map, or the tool raising) becomes an error message for the model; it
\* changes neither error_log nor the status, and when the model then
\* returns a valid Review the turn succeeds and the run proceeds normally.
C19_ToolFailureAbsorbed ==
    /\ [][(chain.stage = "tools" /\ chain'.stage = "parse") =>
             /\ state' = state
             /\ Len(chain'.messages) = Len(chain.tool_calls)
             /\ chain'.llm_calls = 2]_vars
    /\ []((chain.stage = "done" /\ HasFailedToolCall
             /\ chain.response \in InRangeReviews) =>
             /\ lastTurn.ok
             /\ state.error_log = <<>>
             /\ state.competition_status \in {"preparing", "completed"}
             /\ pc = "node" => node = "moderator")

\* Both kinds of tool failure in one turn, then a valid Review, and the run
\* has gone on to the moderator of round 2.
C19_Witness ==
    /\ chain.stage = "done" /\ pc = "node" /\ node = "moderator"
    /\ chain.tool_calls = <<"fetch_code_problem", "run_test_suite">>
    /\ chain.messages[1].content = "Error: Tool not found"
    /\ chain.messages[2].content = "Error executing"
    /\ chain.response \in InRangeReviews
    /\ lastTurn.ok /\ state.error_log = <<>>
    /\ state.current_round = 2

\* C21: no two entries of the problems ledger carry the same id.
C21_UniqueProblemIds ==
    \A i, j \in 1..Len(state.problems) :
        state.problems[i].id = state.problems[j].id => i = j

\* A step of the router: the conditional edge after a node.
RouteStep == pc = "route" /\ pc' # "route"

\* C22: no successful turn and no routing step sets competition_status to
\* 'error'; in a run from the default initial state the status is 'error'
\* exactly when error_log is non-empty.
C22_ErrorOnlyFromFailedTurn ==
    /\ [][(TurnStep /\ lastTurn'.ok) =>
             state'.competition_status # "error"]_vars
    /\ [][RouteStep =>
             state'.competition_status = state.competition_status]_vars
    /\ [](state.competition_status = "error" <=> state.error_log # <<>>)

\* A failed turn has set the status and the router has ended the run.
C22_Witness ==
    /\ pc = "end" /\ failed /\ ~lastTurn.ok
    /\ state.competition_status = "error"
    /\ Len(state.error_log) = 1

\* C23: the router leaves every field of the state unchanged, also when it
\* returns the terminal signal for a next_agent value it does not recognize.
C23_RouterPure ==
    [][RouteStep => state' = state]_vars

\* The router has ended the run on an unrecognized next_agent; the state
\* still names it, with status and round as they were handed in.
C23_Witness ==
    /\ pc = "end"
    /\ state.next_agent = "aggregator"
    /\ state.competition_status = "active"
    /\ state.current_round = 2
    /\ state.error_log = <<>>

\* C24: only the Reviewer changes the score totals: a successful moderator,
\* coderA or coderB turn, and any failed turn, leaves coderA_Score and
\* coderB_Score unchanged.
C24_OnlyReviewerScores ==
    [][(TurnStep /\ (lastTurn'.agent # "reviewer" \/ ~lastTurn'.ok)) =>
          /\ state'.coderA_Score = state.coderA_Score
          /\ state'.coderB_Score = state.coderB_Score]_vars

\* Round 2 after a review that gave 10 and 3 points: the moderator and
\* coderA have succeeded, coderB has failed, and the totals are still 10, 3.
C24_Witness ==
    /\ lastTurn.agent = "coderB" /\ ~lastTurn.ok
    /\ state.current_round = 2
    /\ Len(state.problems) = 2 /\ Len(state.coderA_submissions) = 2
    /\ state.coderA_Score = 10 /\ state.coderB_Score = 3

\* C25: after every successful Reviewer turn round_winner equals the
\* round_winner field of the Review produced in that turn, whatever the six
\* sub-scores are.
C25_RoundWinnerVerbatim ==
    [][ReviewStep => state'.round_winner = lastTurn'.out.round_winner]_vars

\* A Review that names coderB the winner of a round it scored 10 to 0 for
\* coderA: round_winner is coderB.
C25_Witness ==
    /\ lastTurn.agent = "reviewer" /\ lastTurn.ok
    /\ RoundTotalA(lastTurn.out) = 10 /\ RoundTotalB(lastTurn.out) = 0
    /\ lastTurn.out.round_winner = "coderB"
    /\ state.round_winner = "coderB"

\* s is a prefix of t.
IsPrefix(s, t) == Len(s) <= Len(t) /\ SubSeq(t, 1, Len(s)) = s

\* A step in which the turn of `agent` succeeds.
SuccessfulTurnOf(agent) ==
    TurnStep /\ lastTurn'.agent = agent /\ lastTurn'.ok

\* C26: the ledgers problems, coderA_submissions, coderB_submissions,
\* reviewer_comments and error_log are append-only over every step of a
\* run, and each successful moderator / coderA / coderB turn appends exactly
\* one entry to its own ledger and none to the others.
C26_LedgersAppendOnly ==
    /\ [][/\ IsPrefix(state.problems, state'.problems)
          /\ IsPrefix(state.coderA_submissions, state'.coderA_submissions)
          /\ IsPrefix(state.coderB_submissions, state'.coderB_submissions)
          /\ IsPrefix(state.reviewer_comments, state'.reviewer_comments)
          /\ IsPrefix(state.error_log, state'.error_log)]_vars
    /\ [][SuccessfulTurnOf("moderator") =>
             /\ state'.problems = Append(state.problems, lastTurn'.out)
             /\ state'.coderA_submissions = state.coderA_submissions
             /\ state'.coderB_submissions = state.coderB_submissions
             /\ state'.reviewer_comments = state.reviewer_comments
             /\ state'.error_log = state.error_log]_vars
    /\ [][SuccessfulTurnOf("coderA") =>
             /\ state'.coderA_submissions =
                    Append(state.coderA_submissions, lastTurn'.out)
             /\ state'.problems = state.problems
             /\ state'.coderB_submissions = state.coderB_submissions
             /\ state'.reviewer_comments = state.reviewer_comments
             /\ state'.error_log = state.error_log]_vars
    /\ [][SuccessfulTurnOf("coderB") =>
             /\ state'.coderB_submissions =
                    Append(state.coderB_submissions, lastTurn'.out)
             /\ state'.problems = state.problems
             /\ state'.coderA_submissions = state.coderA_submissions
             /\ state'.reviewer_comments = state.reviewer_comments
             /\ state'.error_log = state.error_log]_vars

\* Round 2, coderB has just succeeded: every ledger has grown to two
\* entries, the comments to one, and no error was logged.
C26_Witness ==
    /\ lastTurn.agent = "coderB" /\ lastTurn.ok
    /\ Len(state.problems) = 2
    /\ Len(state.coderA_submissions) = 2
    /\ Len(state.coderB_submissions) = 2
    /\ Len(state.reviewer_comments) = 1
    /\ state.error_log = <<>>

\* C27: in every reachable state with status 'active', current_problem is
\* non-null and is the last element of the problems ledger, and it does not
\* change between the moderator turn of a round and the Reviewer turn of
\* the same round.
C27_CurrentProblem ==
    /\ [](state.competition_status = "active" =>
             /\ state.current_problem # NoneObj
             /\ state.problems # <<>>
             /\ state.current_problem = state.problems[Len(state.problems)])
    /\ [][(TurnStep /\ lastTurn'.agent # "moderator") =>
             state'.current_problem = state.current_problem]_vars
    /\ [][RouteStep => state'.current_problem = state.current_problem]_vars

\* Round 2 is active and coderA has submitted: the current problem is the
\* second of the ledger, not the first.
C27_Witness ==
    /\ state.competition_status = "active"
    /\ lastTurn.agent = "coderA" /\ lastTurn.ok
    /\ Len(state.problems) = 2
    /\ state.current_round = 2
    /\ state.problems[1].id = "p1"
    /\ state.current_problem.id = "p2"

\* C28: each successful Reviewer turn appends exactly one comment, labelled
\* with the round being reviewed (current_round before any increment); in a
\* run from the default initial state the k-th comment is labelled 'Round k'
\* and there are as many comments as completed reviews.
C28_ReviewerComments ==
    /\ [][ReviewStep =>
             state'.reviewer_comments =
                 Append(state.reviewer_comments, state.current_round)]_vars
    /\ [](\A k \in 1..Len(state.reviewer_comments) :
             state.reviewer_comments[k] = k)
    /\ [](Len(state.reviewer_comments) = reviews)

\* Two rounds reviewed: the comments are labelled Round 1 and Round 2.
C28_Witness ==
    /\ reviews = 2 /\ lastTurn.agent = "reviewer" /\ lastTurn.ok
    /\ state.reviewer_comments = <<1, 2>>
    /\ state.competition_status = "completed"

\* C29: turns execute strictly sequentially: a turn is the turn of the one
\* scheduled node, it hands the state it returns to the router before any
\* other turn can start, and every turn after the first of a run is the
\* one the router chose on the state the previous turn returned.
C29_SequentialTurns ==
    /\ [][TurnStep =>
             /\ pc = "node" /\ lastTurn'.agent = node
             /\ pc' = "route"]_vars
    /\ [][(TurnStep /\ nturns > 0) =>
             /\ lastTurn.agent # NoneVal
             /\ node = _route_next(state)]_vars
    /\ [][RouteStep =>
             /\ nturns' = nturns /\ lastTurn' = lastTurn
             /\ nturns > 0]_vars
    /\ [](pc = "route" => lastTurn.agent # NoneVal)

\* The third turn of a run has returned and waits for the router.
C29_Witness ==
    /\ pc = "route" /\ nturns = 3
    /\ lastTurn.agent = "coderB" /\ lastTurn.ok
    /\ state.next_agent = "reviewer"

\* C30: a failed turn is never re-executed (no turn follows it in the run),
\* no agent is invoked twice for the same round, and every turn either
\* succeeds or ends the run with none of its updates applied: the state a
\* failed turn returns differs from the state it was given only by the
\* logged error and the 'error' status.
C30_NoRetriesAllOrNothing ==
    /\ [][TurnStep => ~failed]_vars
    /\ [](\A a \in Agents : metrics[a].calls <= state.current_round)
    /\ [][FailedTurnStep =>
             /\ Len(state'.error_log) = Len(state.error_log) + 1
             /\ [state' EXCEPT !.error_log = state.error_log,
                               !.competition_status =
                                   state.competition_status] = state]_vars

\* C31: a turn of one agent changes only that agent's counters; it
\* increments the agent's calls by exactly 1, a failed turn increments its
\* errors by exactly 1 and a successful one leaves them, so errors <= calls.
C31_MetricsIsolation ==
    /\ [][TurnStep =>
             /\ \A a \in Agents \ {lastTurn'.agent} : metrics'[a] = metrics[a]
             /\ metrics'[lastTurn'.agent].calls =
                    metrics[lastTurn'.agent].calls + 1
             /\ metrics'[lastTurn'.agent].errors =
                    metrics[lastTurn'.agent].errors
                    + (IF lastTurn'.ok THEN 0 ELSE 1)]_vars
    /\ [][~TurnStep => metrics' = metrics]_vars
    /\ [](\A a \in Agents : metrics[a].errors <= metrics[a].calls)

\* coderA has failed once and then succeeded, on a controller whose
\* moderator was called twice and whose other agents were never called.
C31_Witness ==
    /\ lastTurn.agent = "coderA" /\ lastTurn.ok
    /\ metrics["coderA"].calls = 2 /\ metrics["coderA"].errors = 1
    /\ metrics["moderator"].calls = 2 /\ metrics["moderator"].errors = 0
    /\ metrics["coderB"] = InitMetrics /\ metrics["reviewer"] = InitMetrics

\* C32: on a failed turn the state record the executor received has the
\* same error_log and competition_status after the call as before it.
C32_ReceivedStateUntouched ==
    [][FailedTurnStep =>
          LET received ==
                  ReceivedAfterCall(lastTurn'.agent, lastTurn'.out, state)
          IN /\ received.error_log = state.error_log
             /\ received.competition_status = state.competition_status]_vars

\* C33: whenever a metrics snapshot is taken, on one controller over one or
\* several runs, success_rate is (calls - errors) / calls when calls > 0
\* and 1 when calls = 0.
C33_SuccessRate ==
    \A a \in Agents :
        LET snapshot == get_metrics(a, metrics[a])
        IN IF snapshot.calls = 0
           THEN snapshot.success_rate[1] = snapshot.success_rate[2]
           ELSE snapshot.success_rate[1] * snapshot.calls =
                    (snapshot.calls - snapshot.errors)
                    * snapshot.success_rate[2]

\* C34: for every max_rounds >= 1 and every pattern of turn successes and
\* failures, a run from the default initial state ends, with status
\* 'completed' or 'error', after at most 4 * max_rounds agent turns.
C34_Termination ==
    /\ <>(pc = "end" /\ state.competition_status \in {"completed", "error"})
    /\ [](nturns <= 4 * state.max_rounds)

\* A run of two rounds that ended completed after exactly 8 turns.
C34_Witness ==
    /\ pc = "end" /\ state.max_rounds = 2 /\ nturns = 8
    /\ state.competition_status = "completed"

\* C35: in every reachable non-error state of a run from the default
\* initial state, status is 'preparing' iff next_agent is the moderator,
\* 'active' iff next_agent is coderA, coderB or the reviewer, and
\* 'completed' iff next_agent is None.
C35_StatusNextAgentCoupled ==
    state.competition_status # "error" =>
        /\ state.competition_status = "preparing"
               <=> state.next_agent = "moderator"
        /\ state.competition_status = "active"
               <=> state.next_agent \in {"coderA", "coderB", "reviewer"}
        /\ state.competition_status = "completed"
               <=> state.next_agent = NoneVal

\* Round 1 reviewed in a two-round run: status is back to 'preparing' and
\* next_agent is the moderator.
C35_Witness ==
    /\ lastTurn.agent = "reviewer" /\ lastTurn.ok
    /\ state.current_round = 2
    /\ state.competition_status = "preparing"
    /\ state.next_agent = "moderator"

\* C36: in a run from the default initial state error_log never holds more
\* than one entry: at most one turn fails per run, and the single entry is
\* written by the last turn executed.
C36_SingleError ==
    /\ [](Len(state.error_log) <= 1)
    /\ [](state.error_log # <<>> =>
             /\ ~lastTurn.ok
             /\ state.error_log[1][1] = AgentRole[lastTurn.agent])
    /\ [][(TurnStep /\ failed) => FALSE]_vars

\* The Reviewer of round 2 failed, seven turns having succeeded: one entry,
\* written by the reviewer, and the run has ended.
C36_Witness ==
    /\ pc = "end" /\ nturns = 8
    /\ lastTurn.agent = "reviewer" /\ ~lastTurn.ok
    /\ Len(state.error_log) = 1
    /\ state.error_log[1][1] = "reviewer"

\* C37: in every reachable state of a run from the default initial state
\* both totals lie between 0 and 10 * len(reviewer_comments), hence the
\* final totals are at most 10 * max_rounds.
C37_ScoreBounds ==
    /\ 0 <= state.coderA_Score
    /\ state.coderA_Score <= 10 * Len(state.reviewer_comments)
    /\ 0 <= state.coderB_Score
    /\ state.coderB_Score <= 10 * Len(state.reviewer_comments)
    /\ Len(state.reviewer_comments) <= state.max_rounds

\* Two rounds, both won 10 to 0 by coderA: the bound 20 is attained.
C37_Witness ==
    /\ state.competition_status = "completed"
    /\ Len(state.reviewer_comments) = 2
    /\ state.coderA_Score = 20 /\ state.coderB_Score = 0

\* C38: the error_log entry written for a failed turn identifies the agent
\* whose turn failed: it differs from the entry any of the other three
\* agents writes when failing with the same exception.
C38_ErrorNamesAgent ==
    [][FailedTurnStep =>
          LET entry == state'.error_log[Len(state'.error_log)]
          IN /\ entry = ErrorMessage(lastTurn'.agent, entry[2])
             /\ \A other \in Agents \ {lastTurn'.agent} :
                    entry # ErrorMessage(other, entry[2])]_vars

\* A step of _handle_tool_calls on a response that asked for tools.
ToolBatchStep == chain.stage = "tools" /\ chain' # chain

\* C39: within one turn at most one batch of tool calls is executed: the
\* tool calls of the first response are each executed once, in order, and
\* the model is re-invoked exactly once with the results; tool calls in the
\* second response are never executed, and that response goes to parsing.
C39_OneToolBatch ==
    /\ [][ToolBatchStep =>
             /\ chain.llm_calls = 1 /\ chain'.llm_calls = 2
             /\ chain'.stage = "parse"
             /\ chain'.tool_calls = chain.tool_calls
             /\ Len(chain'.messages) = Len(chain.tool_calls)
             /\ \A i \in 1..Len(chain.tool_calls) :
                    chain'.messages[i].tool = chain.tool_calls[i]]_vars
    /\ [][chain.stage = "parse" =>
             /\ chain'.stage = "done"
             /\ chain'.messages = chain.messages
             /\ lastTurn'.out = chain.response
             /\ metrics'["reviewer"].tool_calls =
                    metrics["reviewer"].tool_calls]_vars
    /\ [](chain.llm_calls <= 2)
    /\ []((chain.stage = "done" /\ chain.response.type = "AIMessage") =>
             ~lastTurn.ok)

\* Both tools ran, in the order asked for; the second response asked for
\* tools again, was parsed instead, and the turn failed.
C39_Witness ==
    /\ chain.stage = "done" /\ chain.llm_calls = 2
    /\ chain.tool_calls = <<"run_test_suite", "execute_code_sandbox">>
    /\ chain.messages[1].tool = "run_test_suite"
    /\ chain.messages[2].tool = "execute_code_sandbox"
    /\ chain.response.type = "AIMessage"
    /\ metrics["reviewer"].tool_calls = 2
    /\ ~lastTurn.ok

\* Tool invocations of the turn that returned a result.
ReturnedToolCalls(messages) ==
    Cardinality({i \in 1..Len(messages) : messages[i].content = "result"})

\* C40: the tool_calls counter counts exactly the tool invocations that
\* returned without raising: a call naming a tool absent from the tool map
\* and an invocation that raises leave it unchanged, each invocation that
\* returns adds exactly 1, and nothing else changes it.
C40_ToolCallsCounter ==
    /\ [][ToolBatchStep =>
             /\ metrics'["reviewer"].tool_calls =
                    metrics["reviewer"].tool_calls
                    + ReturnedToolCalls(chain'.messages)
             /\ \A i \in 1..Len(chain'.messages) :
                    chain'.messages[i].tool \notin ToolMap =>
                        chain'.messages[i].content = "Error: Tool not found"]_vars
    /\ [][~ToolBatchStep =>
             metrics'["reviewer"].tool_calls =
                 metrics["reviewer"].tool_calls]_vars
    /\ [](metrics["reviewer"].tool_calls = ReturnedToolCalls(chain.messages))

\* A turn that asked for a tool missing from the tool map and for a tool
\* that returned: the counter is 1.
C40_Witness ==
    /\ chain.stage = "done"
    /\ chain.tool_calls = <<"fetch_code_problem", "run_test_suite">>
    /\ chain.messages[1].content = "Error: Tool not found"
    /\ chain.messages[2].content = "result"
    /\ metrics["reviewer"].tool_calls = 1

====
